---- MODULE Spec2Model ----
(***************************************************************************)
(* A model of pre_commit_checker.py (the organization scanner that keeps   *)
(* one tracking issue per repository without a valid pre-commit            *)
(* configuration) and of its predecessor pre-commit-checker.py.            *)
(*                                                                         *)
(* Python values are tagged records, strings are sequences of characters,  *)
(* so that str(), lower(), `in`, len() and [] behave as in Python.         *)
(***************************************************************************)
EXTENDS Integers, Sequences, FiniteSets, TLC

VARIABLES
    env,            \* os.environ after load_dotenv(): name -> PyStr or PyNone
    PAT, ORG, DRY_RUN,  \* module globals of pre_commit_checker.py
    pc,             \* position of the process
    exit_status,    \* -1 while running, else the process's exit status
    exc,            \* the uncaught exception that ended the process
    pass,           \* which run of the script this is
    repo_total,     \* repos.totalCount
    repo_count,     \* main()'s repo_count
    repo,           \* the repository of the current iteration (remote state)
    repo0,          \* that repository as the listing yielded it
    hp,             \* what has_pre_commit(repo) returned
    hi,             \* what has_pre_commit_issue(repo) returned
    todo,           \* close_issues(): issues of the listing not yet iterated
    cur,            \* close_issues(): number of the issue being closed
    closed_issues,  \* close_issues(): its counter
    issue_id,       \* main(): what create_issue(repo) returned
    calls,          \* remote calls made for the current repository
    logs,           \* log lines written for the current repository
    history,        \* one entry per finished iteration and per sleep
    faults,         \* remote errors so far
    changes,        \* changes of the config file between runs so far
    art,            \* validation harness: the artifact given to has_pre_commit
    res,            \* validation harness: what has_pre_commit returned
    dry,            \* validation harness: what is_dry_run returned
    prev            \* what the previous run of the script did

vars == <<env, PAT, ORG, DRY_RUN, pc, exit_status, exc, pass, repo_total,
          repo_count, repo, repo0, hp, hi, todo, cur, closed_issues,
          issue_id, calls, logs, history, faults, changes, art, res, dry,
          prev>>

----------------------------------------------------------------------------
(* Bounds *)

MaxRepos == 2
MaxIssues == 2
MaxFaults == 1
MaxPasses == 2
MaxChanges == 1

----------------------------------------------------------------------------
(* Python values *)

PyNone == [t |-> "NoneType"]
PyStr(s) == [t |-> "str", s |-> s]
PyInt(n) == [t |-> "int", n |-> n]
PyList(items) == [t |-> "list", items |-> items]
PyDict(d) == [t |-> "dict", d |-> d]
PyBool(b) == [t |-> "bool", b |-> b]
PyErr(name) == [t |-> "exception", name |-> name]

TypeError == PyErr("TypeError")
YAMLError == PyErr("YAMLError")
GithubException == PyErr("GithubException")
UnknownObjectException == PyErr("UnknownObjectException")

UpperCase == <<"A","B","C","D","E","F","G","H","I","J","K","L","M",
               "N","O","P","Q","R","S","T","U","V","W","X","Y","Z">>
LowerCase == <<"a","b","c","d","e","f","g","h","i","j","k","l","m",
               "n","o","p","q","r","s","t","u","v","w","x","y","z">>

\* str.lower() on one character, then on a string
LowerChar(c) ==
    IF \E i \in 1..Len(UpperCase) : UpperCase[i] = c
    THEN LowerCase[CHOOSE i \in 1..Len(UpperCase) : UpperCase[i] = c]
    ELSE c

lower(s) == [i \in 1..Len(s) |-> LowerChar(s[i])]

\* str(x): "None" for None, the string itself for a string
str(x) == IF x = PyNone THEN PyStr(<<"N","o","n","e">>) ELSE x

\* os.getenv(name, default)
getenv(e, name, default) == IF e[name] = PyNone THEN default ELSE e[name]

\* sub in s, for strings
IsSubstring(sub, s) ==
    \E k \in 0..(Len(s) - Len(sub)) : SubSeq(s, k + 1, k + Len(sub)) = sub

\* x in c, where x is a string literal
py_in(x, c) ==
    CASE c.t = "dict" -> PyBool(x \in DOMAIN c.d)
      [] c.t = "list" ->
            PyBool(\E i \in 1..Len(c.items) : c.items[i] = PyStr(x))
      [] c.t = "str"  -> PyBool(IsSubstring(x, c.s))
      [] OTHER        -> TypeError

\* c[k], where k is a string literal
py_getitem(c, k) ==
    IF c.t = "dict" THEN c.d[k] ELSE TypeError

\* len(v)
py_len(v) ==
    CASE v.t = "dict" -> PyInt(Cardinality(DOMAIN v.d))
      [] v.t = "list" -> PyInt(Len(v.items))
      [] v.t = "str"  -> PyInt(Len(v.s))
      [] OTHER        -> TypeError

----------------------------------------------------------------------------
(* The config file: what get_contents() gives and what PyYAML makes of it *)

REPOS == <<"r","e","p","o","s">>
ABC == <<"a","b","c">>

\* One entry of a valid `repos` list; its inside is never looked at.
Hook == PyDict((<<"r","e","p","o">> :> PyStr(<<"l","o","c","a","l">>)))

\* ContentFile.content is base64 text; b64decode gives the file's bytes back.
b64encode(text) == [encoding |-> "base64", data |-> text]
b64decode(content) == content.data

\* yaml.safe_load on the documents of the model
yaml_safe_load(text) ==
    CASE text = ""                     -> PyNone
      [] text = "5"                    -> PyInt(5)
      [] text = "# none"               -> PyNone
      [] text = "null"                 -> PyNone
      [] text = "42"                   -> PyInt(42)
      [] text = "abc"                  -> PyStr(ABC)
      [] text = "repos"                -> PyStr(REPOS)
      [] text = "- abc"                -> PyList(<<PyStr(ABC)>>)
      [] text = "- repos"              -> PyList(<<PyStr(REPOS)>>)
      [] text = "abc: 1"               -> PyDict((ABC :> PyInt(1)))
      [] text = "{}"                   -> PyDict(<<>>)
      [] text = "repos: []"            -> PyDict((REPOS :> PyList(<<>>)))
      [] text = "repos: {}"            -> PyDict((REPOS :> PyDict(<<>>)))
      [] text = "repos:"               -> PyDict((REPOS :> PyNone))
      [] text = "repos: 3"             -> PyDict((REPOS :> PyInt(3)))
      [] text = "repos: abc"           -> PyDict((REPOS :> PyStr(ABC)))
      [] text = "repos: [{repo: local}]" ->
                                   PyDict((REPOS :> PyList(<<Hook>>)))
      [] text = "repos: {abc: 1}"      ->
                                   PyDict((REPOS :> PyDict((ABC :> PyInt(1)))))
      [] OTHER                         -> YAMLError

Found(size, text) ==
    [fetch |-> "Found", size |-> size, content |-> b64encode(text)]
NotFound == [fetch |-> "NotFound", size |-> 0, content |-> b64encode("")]
FetchError == [fetch |-> "FetchError", size |-> 0, content |-> b64encode("")]

ValidConfig == Found(22, "repos: [{repo: local}]")
NullConfig == Found(6, "# none")

\* Every file of the model, with the size GitHub reports for it
Files ==
    { Found(0, ""), Found(1, "5"), Found(1, "{"),
      Found(6, "# none"), Found(4, "null"), Found(2, "42"),
      Found(3, "abc"), Found(5, "repos"), Found(5, "- abc"),
      Found(7, "- repos"), Found(6, "abc: 1"), Found(2, "{}"),
      Found(9, "repos: []"), Found(9, "repos: {}"), Found(6, "repos:"),
      Found(8, "repos: 3"), Found(10, "repos: abc"), ValidConfig,
      Found(15, "repos: {abc: 1}"), Found(8, "repos: ["),
      Found(7, "a: b: c") }

Artifacts == Files \cup {NotFound, FetchError}

Returns(value, line, parsed) ==
    [raised |-> FALSE, value |-> value, exc |-> PyNone, log |-> line,
     parsed |-> parsed]
Raises(e, parsed) ==
    [raised |-> TRUE, value |-> FALSE, exc |-> e, log |-> "", parsed |-> parsed]

\* has_pre_commit() with a bare `except:` around the fetch, as line 25 of
\* pre-commit-checker.py once had it: any fetch error reads as "missing"
has_pre_commit_catch_all(artifact) ==
    IF artifact.fetch \in {"NotFound", "FetchError"}
    THEN Returns(FALSE, "missing pre-commit config", FALSE)
    ELSE IF artifact.size <= 1
    THEN Returns(FALSE, "pre-commit config is present but empty", FALSE)
    ELSE Returns(TRUE, "", TRUE)

\* has_pre_commit() with `except GithubException: pass` around the fetch:
\* a fetch error falls through to `return True`
has_pre_commit_error_passes(artifact) ==
    IF artifact.fetch = "NotFound"
    THEN Returns(FALSE, "missing pre-commit config", FALSE)
    ELSE IF artifact.fetch = "FetchError"
    THEN Returns(TRUE, "", FALSE)
    ELSE IF artifact.size <= 1
    THEN Returns(FALSE, "pre-commit config is present but empty", FALSE)
    ELSE Returns(TRUE, "", TRUE)

\* has_pre_commit(repository), given what get_contents() came back with.
\* `parsed` records whether the content was decoded and given to PyYAML.
has_pre_commit(artifact) ==
    IF artifact.fetch = "NotFound"
    THEN Returns(FALSE, "missing pre-commit config", FALSE)
    ELSE IF artifact.fetch = "FetchError"
    THEN Raises(GithubException, FALSE)
    ELSE IF artifact.size <= 1
    THEN Returns(FALSE, "pre-commit config is present but empty", FALSE)
    ELSE
    LET parsed_config == yaml_safe_load(b64decode(artifact.content)) IN
    IF parsed_config = YAMLError
    THEN Returns(FALSE, "invalid pre-commit config -- invalid YAML", TRUE)
    ELSE
    LET isin == py_in(REPOS, parsed_config) IN
    IF isin = TypeError THEN Raises(TypeError, TRUE)
    ELSE IF ~isin.b
    THEN Returns(FALSE,
             "invalid pre-commit config -- missing 'repos' dictionary", TRUE)
    ELSE
    LET item == py_getitem(parsed_config, REPOS) IN
    IF item = TypeError THEN Raises(TypeError, TRUE)
    ELSE
    LET n == py_len(item) IN
    IF n = TypeError THEN Raises(TypeError, TRUE)
    ELSE IF n.n = 0
    THEN Returns(FALSE, "invalid pre-commit config -- no defined repos", TRUE)
    ELSE Returns(TRUE, "", TRUE)

----------------------------------------------------------------------------
(* The dry-run flag *)

S_true == <<"t","r","u","e">>
S_yes == <<"y","e","s">>
S_false == <<"f","a","l","s","e">>
S_no == <<"n","o">>

\* is_dry_run(value) without value.lower()
is_dry_run_case_sensitive(value) ==
    IF value.s \in {S_true, S_yes} THEN TRUE
    ELSE IF value.s \in {S_false, S_no} THEN FALSE
    ELSE TRUE

\* is_dry_run(value), lines 137-144
is_dry_run(value) ==
    LET normalized_value == lower(value.s) IN
    IF normalized_value \in {S_true, S_yes} THEN TRUE
    ELSE IF normalized_value \in {S_false, S_no} THEN FALSE
    ELSE TRUE

----------------------------------------------------------------------------
(* Issues *)

MISSING_ISSUE_TITLE == "Missing or invalid pre-commit configuration"
OtherTitle == "Missing or invalid pre-commit configuration file"

Issue(title, state) ==
    [title |-> title, state |-> state, comments |-> 0, by |-> "other"]

\* What a repository's issue tracker can hold when the scan reaches it;
\* an issue's number is its place in the sequence.
IssueKinds ==
    { Issue(MISSING_ISSUE_TITLE, "open"), Issue(OtherTitle, "open"),
      Issue(MISSING_ISSUE_TITLE, "closed") }

RECURSIVE SeqsUpTo(_, _)
SeqsUpTo(S, n) ==
    IF n = 0 THEN {<<>>}
    ELSE LET shorter == SeqsUpTo(S, n - 1) IN
         shorter \cup {Append(q, x) : q \in shorter, x \in S}

IssueTrackers == SeqsUpTo(IssueKinds, MaxIssues)

\* repository.get_issues(state="open"): the numbers of the open issues,
\* newest first
RECURSIVE get_issues_open(_, _)
get_issues_open(issues, n) ==
    IF n = 0 THEN <<>>
    ELSE IF issues[n].state = "open"
         THEN <<n>> \o get_issues_open(issues, n - 1)
         ELSE get_issues_open(issues, n - 1)

\* the title test against the title pre-commit-checker.py gave its issues
title_matches_legacy(issue) == issue.title = "Missing pre-commit configuration"

\* close_issues() and has_pre_commit_issue() without their title test
title_matches_any(issue) == TRUE

\* the test of lines 173 and 302
title_matches(issue) == issue.title = MISSING_ISSUE_TITLE

\* has_pre_commit_issue() listing the issues without state="open"
has_pre_commit_issue_all_states(issues) ==
    \E n \in 1..Len(issues) : title_matches(issues[n])

\* has_pre_commit_issue() with its two return values exchanged
has_pre_commit_issue_negated(issues) ==
    ~\E k \in 1..Len(get_issues_open(issues, Len(issues))) :
        title_matches(issues[get_issues_open(issues, Len(issues))[k]])

\* has_pre_commit_issue() that never finds the issue
has_pre_commit_issue_never(issues) == FALSE

\* has_pre_commit_issue(repository), given the listing
has_pre_commit_issue(issues) ==
    \E k \in 1..Len(get_issues_open(issues, Len(issues))) :
        title_matches(issues[get_issues_open(issues, Len(issues))[k]])

----------------------------------------------------------------------------
(* The state the scan works on *)

Unset == [t |-> "unset"]
NoRepo == [t |-> "no repository"]

Token == PyStr(<<"g","h","p","_","1">>)
OrgName == PyStr(<<"a","c","m","e">>)
DefaultDryRun == PyStr(<<"T","r","u","e">>)

\* Values DRY_RUN is given in the environment
DryRunSettings ==
    { PyStr(<<"F","a","l","s","e">>), PyStr(<<"N","O">>), PyStr(<<"1">>) }

\* os.environ: a variable that is absent maps to None. Absent credentials
\* are tried with the default DRY_RUN only.
Envs ==
    { e \in [{"PAT", "ORG", "DRY_RUN"} ->
                {PyNone, Token, OrgName} \cup DryRunSettings] :
        /\ e["PAT"] \in {PyNone, Token}
        /\ e["ORG"] \in {PyNone, OrgName}
        /\ e["DRY_RUN"] \in {PyNone} \cup DryRunSettings
        /\ (e["PAT"] = PyNone \/ e["ORG"] = PyNone) => e["DRY_RUN"] = PyNone }

\* The config files repositories of a scanned organization hold: a missing
\* one, a valid one, and one PyYAML loads as None
ScanConfigs == {NotFound, ValidConfig, NullConfig}

\* What the listing of the organization can yield. The remote state of a
\* repository is fixed when the scan first reads it: its config file at the
\* first get_contents(), its issue tracker at the first get_issues().
Unread == [fetch |-> "Unread", size |-> 0, content |-> b64encode("")]

Repos ==
    [archived : BOOLEAN, has_issues : BOOLEAN, config : {Unread},
     listed : {FALSE}, issues : {<<>>}]

ConfigsAt(r) == IF r.config = Unread THEN ScanConfigs ELSE {r.config}
IssuesAt(r) == IF r.listed THEN {r.issues} ELSE IssueTrackers

\* A remote call can fail while the budget of remote errors lasts
Oks == IF faults < MaxFaults THEN {TRUE, FALSE} ELSE {TRUE}

Call(op, issue, ok) == [op |-> op, issue |-> issue, ok |-> ok]

WriteOps == {"create_issue", "create_comment", "edit"}

NumCalls(ops, oks) ==
    Cardinality({k \in 1..Len(calls) : calls[k].op \in ops /\ calls[k].ok \in oks})

\* What the history keeps of a finished iteration
Summary ==
    [kind |-> "check", archived |-> repo.archived, ncalls |-> Len(calls),
     nwrites |-> NumCalls(WriteOps, BOOLEAN),
     nwfailed |-> NumCalls(WriteOps, {FALSE})]

Sleep == [kind |-> "sleep"]

\* An uncaught exception ends the process with a traceback and status 1
Crash(e) ==
    /\ pc' = "crashed"
    /\ exc' = e
    /\ exit_status' = 1

\* main(), lines 344-362: the branch an iteration takes for its repository
Action ==
    IF pc = "crashed" THEN "Abort"
    ELSE IF repo0.archived THEN "Skip"
    ELSE IF hp = Unset \/ hi = Unset THEN "Abort"
    ELSE IF hp.b THEN (IF hi.b THEN "CloseIssues" ELSE "NoOp")
    ELSE (IF hi.b THEN "NoOp" ELSE "CreateIssue")

\* What a run leaves for the next one to be compared with: its action,
\* whether it created an issue, whether it changed the issue tracker, and
\* whether the config file changed after it read it
NoRun ==
    [action |-> "None", created |-> FALSE, wrote |-> FALSE, changed |-> FALSE]

Init ==
    /\ env \in Envs
    /\ PAT = Unset /\ ORG = Unset /\ DRY_RUN = Unset
    /\ pc = "load"
    /\ exit_status = -1
    /\ exc = PyNone
    /\ pass = 1
    /\ repo_total = 0
    /\ repo_count = 0
    /\ repo = NoRepo /\ repo0 = NoRepo
    /\ hp = Unset /\ hi = Unset
    /\ todo = <<>> /\ cur = 0 /\ closed_issues = 0 /\ issue_id = 0
    /\ calls = <<>> /\ logs = <<>> /\ history = <<>>
    /\ faults = 0 /\ changes = 0
    /\ art = NotFound /\ res = Unset /\ dry = Unset
    /\ prev = NoRun

\* Lines 29-69: the module's globals and the startup checks
LoadModule ==
    /\ pc = "load"
    /\ PAT' = str(getenv(env, "PAT", PyNone))
    /\ ORG' = str(getenv(env, "ORG", PyNone))
    /\ DRY_RUN' = getenv(env, "DRY_RUN", DefaultDryRun)
    /\ IF PAT' = PyNone \/ ORG' = PyNone
       THEN pc' = "exited" /\ exit_status' = 1
       ELSE pc' = "main" /\ exit_status' = exit_status
    /\ UNCHANGED <<env, exc, pass, repo_total, repo_count, repo, repo0, hp, hi,
                   todo, cur, closed_issues, issue_id, calls, logs, history,
                   faults, changes, art, res, dry, prev>>

\* main(), lines 326-337: the client, the organization, its listing
MainStart ==
    /\ pc = "main"
    /\ \E ok \in Oks, n \in (IF pass = 1 THEN 0..MaxRepos ELSE {repo_total}) :
        /\ history' = <<[kind |-> "get_organization", ok |-> ok]>>
        /\ faults' = faults + (IF ok THEN 0 ELSE 1)
        /\ IF ok
           THEN /\ repo_total' = n
                /\ repo_count' = 0
                /\ pc' = "loop"
                /\ UNCHANGED <<exc, exit_status>>
           ELSE /\ Crash(GithubException)
                /\ UNCHANGED <<repo_total, repo_count>>
    /\ UNCHANGED <<env, PAT, ORG, DRY_RUN, pass, repo, repo0, hp, hi, todo,
                   cur, closed_issues, issue_id, calls, logs, changes, art,
                   res, dry, prev>>

\* main(), lines 339-346: the next repository of the listing, or the end
NextRepo ==
    /\ pc = "loop"
    /\ IF repo_count = repo_total
       THEN /\ pc' = "done"
            /\ exit_status' = 0
            /\ UNCHANGED <<repo_count, repo, repo0, hp, hi, calls, logs>>
       ELSE \E r \in (IF pass = 1 THEN Repos ELSE {repo}) :
            /\ repo_count' = repo_count + 1
            /\ repo' = r
            /\ repo0' = r
            /\ hp' = Unset
            /\ hi' = Unset
            /\ calls' = <<>>
            /\ exit_status' = exit_status
            /\ IF r.archived
               THEN /\ logs' = <<"repo is archived; skipping">>
                    /\ pc' = "pace"
               ELSE /\ logs' = <<>>
                    /\ pc' = "has_pre_commit"
    /\ UNCHANGED <<env, PAT, ORG, DRY_RUN, exc, pass, repo_total, todo, cur,
                   closed_issues, issue_id, history, faults, changes, art, res,
                   dry, prev>>

\* main() line 347 and has_pre_commit(), lines 198-223
HasPreCommit ==
    /\ pc = "has_pre_commit"
    /\ \E ok \in Oks, c \in ConfigsAt(repo) :
        LET r == has_pre_commit(IF ok THEN c ELSE FetchError) IN
        /\ repo' = IF ok THEN [repo EXCEPT !.config = c] ELSE repo
        /\ repo0' = IF ok THEN [repo0 EXCEPT !.config = c] ELSE repo0
        /\ calls' = Append(calls, Call("get_contents", 0, ok))
        /\ faults' = faults + (IF ok THEN 0 ELSE 1)
        /\ IF r.raised
           THEN /\ Crash(r.exc)
                /\ UNCHANGED <<hp, logs>>
           ELSE /\ hp' = PyBool(r.value)
                /\ logs' = logs \o
                     (IF r.value THEN <<"has pre-commit">>
                      ELSE <<r.log, "Does NOT have pre-commit">>)
                /\ pc' = "has_pre_commit_issue"
                /\ UNCHANGED <<exc, exit_status>>
    /\ UNCHANGED <<env, PAT, ORG, DRY_RUN, pass, repo_total, repo_count, hi,
                   todo, cur, closed_issues, issue_id, history, changes, art,
                   res, dry, prev>>

\* main() lines 349 and 353, has_pre_commit_issue(), lines 172-176
HasPreCommitIssue ==
    /\ pc = "has_pre_commit_issue"
    /\ \E ok \in Oks, l \in IssuesAt(repo) :
        LET found == has_pre_commit_issue(l) IN
        /\ repo' = IF ok THEN [repo EXCEPT !.listed = TRUE, !.issues = l]
                   ELSE repo
        /\ repo0' = IF ok THEN [repo0 EXCEPT !.listed = TRUE, !.issues = l]
                    ELSE repo0
        /\ calls' = Append(calls, Call("get_issues", 0, ok))
        /\ faults' = faults + (IF ok THEN 0 ELSE 1)
        /\ IF ~ok
           THEN /\ Crash(GithubException)
                /\ UNCHANGED <<hi, logs>>
           ELSE /\ hi' = PyBool(found)
                /\ UNCHANGED <<exc, exit_status>>
                /\ IF hp.b
                   THEN /\ pc' = IF found THEN "close_issues" ELSE "pace"
                        /\ logs' = logs
                   ELSE /\ pc' = IF found THEN "pace" ELSE "create_issue"
                        /\ logs' = Append(logs,
                               IF found THEN "has issue" ELSE "NEEDS issue")
    /\ UNCHANGED <<env, PAT, ORG, DRY_RUN, pass, repo_total, repo_count, hp,
                   todo, cur, closed_issues, issue_id, history, changes, art,
                   res, dry, prev>>
\* close_issues() without its dry-run test
close_gate_always == TRUE

\* create_issue() line 251 and close_issues() line 306: `if not is_dry_run()`
create_gate == ~is_dry_run(DRY_RUN)
close_gate == ~is_dry_run(DRY_RUN)

\* close_issues() returning after the first matching issue
next_issues_first_only(t) == <<>>

\* close_issues() line 301: the loop goes on with the rest of the listing
next_issues(t) == Tail(t)

\* close_issues() without its try/except: the remote error leaves main()
except_close_propagates == "crashed"

\* close_issues() with the try/except around the comment alone: after the
\* error is logged the issue is closed all the same
except_close_then_edit == "edit"

\* close_issues() lines 312-313: the remote error is logged, the loop goes on
except_close == "close_loop"

\* create_issue() creating the issue whatever the repository's settings
supports_issues_unchecked(r) == TRUE

\* create_issue() line 253: `if not repository.has_issues`
supports_issues(r) == r.has_issues

\* repository.create_issue(title=MISSING_ISSUE_TITLE, body=issue_body)
NewIssue ==
    [title |-> MISSING_ISSUE_TITLE, state |-> "open", comments |-> 0,
     by |-> "tool"]

\* main() lines 357-362 and create_issue(), lines 241-267
CreateIssue ==
    /\ pc = "create_issue"
    /\ \E ok \in Oks :
        LET attempt == create_gate /\ supports_issues(repo)
            number == Len(repo.issues) + 1
            returned == IF attempt /\ ok THEN number ELSE 0
        IN
        /\ issue_id' = returned
        /\ calls' = IF attempt
                    THEN Append(calls, Call("create_issue", returned, ok))
                    ELSE calls
        /\ faults' = faults + (IF attempt /\ ~ok THEN 1 ELSE 0)
        /\ repo' = IF attempt /\ ok
                   THEN [repo EXCEPT !.issues = Append(@, NewIssue)]
                   ELSE repo
        /\ logs' = logs \o
             (IF ~create_gate THEN <<"dry run, so issue not created">>
              ELSE IF ~supports_issues(repo)
                   THEN <<"repository doesn't support issues">>
              ELSE IF ~ok
                   THEN <<"Issue creation failed due to GitHub Exception">>
              ELSE <<>>)
             \o <<IF returned = 0 THEN "No issue created" ELSE "Created">>
    /\ pc' = "pace"
    /\ UNCHANGED <<env, PAT, ORG, DRY_RUN, exit_status, exc, pass, repo_total,
                   repo_count, repo0, hp, hi, todo, cur, closed_issues,
                   history, changes, art, res, dry, prev>>

\* main() line 350 and close_issues(), lines 289-301: the listing it iterates
CloseIssues ==
    /\ pc = "close_issues"
    /\ \E ok \in Oks :
        /\ calls' = Append(calls, Call("get_issues", 0, ok))
        /\ faults' = faults + (IF ok THEN 0 ELSE 1)
        /\ IF ok
           THEN /\ todo' = get_issues_open(repo.issues, Len(repo.issues))
                /\ closed_issues' = 0
                /\ pc' = "close_loop"
                /\ UNCHANGED <<exc, exit_status>>
           ELSE /\ Crash(GithubException)
                /\ UNCHANGED <<todo, closed_issues>>
    /\ UNCHANGED <<env, PAT, ORG, DRY_RUN, pass, repo_total, repo_count, repo,
                   repo0, hp, hi, cur, issue_id, logs, history, changes, art,
                   res, dry, prev>>

\* close_issues(), lines 301-306 and 314-317: one turn of its loop, up to
\* the first remote call, or its return
CloseNext ==
    /\ pc = "close_loop"
    /\ IF todo = <<>>
       THEN /\ pc' = "pace"
            /\ UNCHANGED <<todo, cur, closed_issues, logs>>
       ELSE /\ todo' = next_issues(todo)
            /\ IF title_matches(repo.issues[Head(todo)])
               THEN /\ closed_issues' = closed_issues + 1
                    /\ IF close_gate
                       THEN /\ cur' = Head(todo)
                            /\ pc' = "create_comment"
                            /\ logs' = Append(logs, "Closing issue")
                       ELSE /\ cur' = cur
                            /\ pc' = "close_loop"
                            /\ logs' = logs \o <<"Closing issue",
                                          "dry run, so issue not closed">>
               ELSE /\ pc' = "close_loop"
                    /\ UNCHANGED <<cur, closed_issues, logs>>
    /\ UNCHANGED <<env, PAT, ORG, DRY_RUN, exit_status, exc, pass, repo_total,
                   repo_count, repo, repo0, hp, hi, issue_id, calls, history,
                   faults, changes, art, res, dry, prev>>

\* close_issues(), lines 309 and 312-313: issue.create_comment(comment_body)
CreateComment ==
    /\ pc = "create_comment"
    /\ \E ok \in Oks :
        /\ calls' = Append(calls, Call("create_comment", cur, ok))
        /\ faults' = faults + (IF ok THEN 0 ELSE 1)
        /\ IF ok
           THEN /\ repo' = [repo EXCEPT !.issues[cur].comments = @ + 1]
                /\ pc' = "edit"
                /\ logs' = logs
           ELSE /\ repo' = repo
                /\ pc' = except_close
                /\ logs' = Append(logs,
                              "Issue closing failed due to GitHuh Exception")
    /\ UNCHANGED <<env, PAT, ORG, DRY_RUN, exit_status, exc, pass, repo_total,
                   repo_count, repo0, hp, hi, todo, cur, closed_issues,
                   issue_id, history, changes, art, res, dry, prev>>

\* close_issues(), lines 311-313: issue.edit(state="closed", ...)
EditIssue ==
    /\ pc = "edit"
    /\ \E ok \in Oks :
        /\ calls' = Append(calls, Call("edit", cur, ok))
        /\ faults' = faults + (IF ok THEN 0 ELSE 1)
        /\ repo' = IF ok
                   THEN [repo EXCEPT !.issues[cur].state = "closed"]
                   ELSE repo
        /\ logs' = IF ok THEN logs
                   ELSE Append(logs,
                          "Issue closing failed due to GitHuh Exception")
        /\ pc' = IF ok THEN "close_loop" ELSE except_close
    /\ UNCHANGED <<env, PAT, ORG, DRY_RUN, exit_status, exc, pass, repo_total,
                   repo_count, repo0, hp, hi, todo, cur, closed_issues,
                   issue_id, history, changes, art, res, dry, prev>>

\* main() sleeping after every iteration
pauses_always(count, total) == TRUE

\* main() line 363: `if repo_count != repo_total`
pauses(count, total) == count # total

\* main(), lines 363-364: the end of an iteration
Pace ==
    /\ pc = "pace"
    /\ history' = Append(history, Summary) \o
                    (IF pauses(repo_count, repo_total) THEN <<Sleep>>
                     ELSE <<>>)
    /\ pc' = "loop"
    /\ UNCHANGED <<env, PAT, ORG, DRY_RUN, exit_status, exc, pass, repo_total,
                   repo_count, repo, repo0, hp, hi, todo, cur, closed_issues,
                   issue_id, calls, logs, faults, changes, art, res, dry,
                   prev>>

\* Lines 367-368, once more: the script is run again on the organization.
\* Repeated runs are followed for an organization of one repository.
Rerun ==
    /\ pc \in {"done", "crashed"}
    /\ pass < MaxPasses
    /\ repo_total = 1 /\ repo # NoRepo
    /\ pass' = pass + 1
    /\ pc' = "load"
    /\ exit_status' = -1
    /\ exc' = PyNone
    /\ PAT' = Unset /\ ORG' = Unset /\ DRY_RUN' = Unset
    /\ repo_count' = 0
    /\ hp' = Unset /\ hi' = Unset
    /\ todo' = <<>> /\ cur' = 0 /\ closed_issues' = 0 /\ issue_id' = 0
    /\ calls' = <<>> /\ logs' = <<>> /\ history' = <<>>
    /\ prev' = [action |-> Action, created |-> issue_id # 0,
                 wrote |-> repo.issues # repo0.issues,
                 changed |-> repo.config # repo0.config]
    /\ UNCHANGED <<env, repo_total, repo, repo0, faults, changes, art, res,
                   dry>>

\* Between two runs somebody commits or removes the config file
ConfigChanges ==
    /\ pc \in {"done", "crashed"}
    /\ pass < MaxPasses
    /\ changes < MaxChanges
    /\ repo_total = 1 /\ repo # NoRepo /\ repo.config # Unread
    /\ \E c \in ScanConfigs \ {repo.config} :
        repo' = [repo EXCEPT !.config = c]
    /\ changes' = changes + 1
    /\ UNCHANGED <<env, PAT, ORG, DRY_RUN, pc, exit_status, exc, pass,
                   repo_total, repo_count, repo0, hp, hi, todo, cur,
                   closed_issues, issue_id, calls, logs, history, faults, art,
                   res, dry, prev>>

Next ==
    \/ LoadModule
    \/ MainStart
    \/ NextRepo
    \/ HasPreCommit
    \/ HasPreCommitIssue
    \/ CreateIssue
    \/ CloseIssues
    \/ CloseNext
    \/ CreateComment
    \/ EditIssue
    \/ Pace
    \/ Rerun
    \/ ConfigChanges

Spec == Init /\ [][Next]_vars
----------------------------------------------------------------------------
(* pre-commit-checker.py, the predecessor of the script: it only reports *)

LegacyTitle == "Missing pre-commit configuration"
KeyError == PyErr("KeyError")

LegacyIssueTrackers ==
    SeqsUpTo({Issue(LegacyTitle, "open"), Issue(MISSING_ISSUE_TITLE, "open"),
              Issue(LegacyTitle, "closed")}, MaxIssues)

LegacyIssuesAt(r) == IF r.listed THEN {r.issues} ELSE LegacyIssueTrackers

\* pre-commit-checker.py, has_pre_commit(), lines 20-28
legacy_has_pre_commit(artifact) ==
    IF artifact.fetch = "NotFound" THEN Returns(FALSE, "", FALSE)
    ELSE IF artifact.fetch = "FetchError" THEN Raises(GithubException, FALSE)
    ELSE Returns(TRUE, "", FALSE)

\* pre-commit-checker.py, has_pre_commit_issue(), lines 13-18
legacy_has_pre_commit_issue(issues) ==
    \E k \in 1..Len(get_issues_open(issues, Len(issues))) :
        issues[get_issues_open(issues, Len(issues))[k]].title = LegacyTitle

LegacyInit ==
    /\ env \in Envs
    /\ PAT = Unset /\ ORG = Unset /\ DRY_RUN = Unset
    /\ pc = "legacy_main"
    /\ exit_status = -1
    /\ exc = PyNone
    /\ pass = 1
    /\ repo_total = 0
    /\ repo_count = 0
    /\ repo = NoRepo /\ repo0 = NoRepo
    /\ hp = Unset /\ hi = Unset
    /\ todo = <<>> /\ cur = 0 /\ closed_issues = 0 /\ issue_id = 0
    /\ calls = <<>> /\ logs = <<>> /\ history = <<>>
    /\ faults = 0 /\ changes = 0
    /\ art = NotFound /\ res = Unset /\ dry = Unset
    /\ prev = NoRun

\* pre-commit-checker.py, main(), lines 33-46: os.environ[...] raises
\* KeyError for an absent variable; then the client and the listing
LegacyMain ==
    /\ pc = "legacy_main"
    /\ \E ok \in Oks, n \in 0..MaxRepos :
        IF env["PAT"] = PyNone \/ env["ORG"] = PyNone
        THEN /\ Crash(KeyError)
             /\ UNCHANGED <<PAT, ORG, repo_total, history, faults>>
        ELSE /\ PAT' = env["PAT"]
             /\ ORG' = env["ORG"]
             /\ history' = <<[kind |-> "get_organization", ok |-> ok]>>
             /\ faults' = faults + (IF ok THEN 0 ELSE 1)
             /\ IF ok
                THEN /\ repo_total' = n
                     /\ pc' = "legacy_loop"
                     /\ UNCHANGED <<exc, exit_status>>
                ELSE /\ Crash(GithubException)
                     /\ UNCHANGED repo_total
    /\ UNCHANGED <<env, DRY_RUN, pass, repo_count, repo, repo0, hp, hi, todo,
                   cur, closed_issues, issue_id, calls, logs, changes, art,
                   res, dry, prev>>

\* pre-commit-checker.py, main(), lines 46-50: `next` names the builtin and
\* does nothing, so an archived repository goes on like any other
LegacyNextRepo ==
    /\ pc = "legacy_loop"
    /\ IF repo_count = repo_total
       THEN /\ pc' = "done"
            /\ exit_status' = 0
            /\ UNCHANGED <<repo_count, repo, repo0, hp, hi, calls, logs>>
       ELSE \E r \in Repos :
            /\ repo_count' = repo_count + 1
            /\ repo' = r
            /\ repo0' = r
            /\ hp' = Unset
            /\ hi' = Unset
            /\ calls' = <<>>
            /\ logs' = <<"repo.name">>
            /\ exit_status' = exit_status
            /\ pc' = "legacy_has_pre_commit"
    /\ UNCHANGED <<env, PAT, ORG, DRY_RUN, exc, pass, repo_total, todo, cur,
                   closed_issues, issue_id, history, faults, changes, art, res,
                   dry, prev>>

\* pre-commit-checker.py, main(), lines 52-55
LegacyHasPreCommit ==
    /\ pc = "legacy_has_pre_commit"
    /\ \E ok \in Oks, c \in ConfigsAt(repo) :
        LET r == legacy_has_pre_commit(IF ok THEN c ELSE FetchError) IN
        /\ repo' = IF ok THEN [repo EXCEPT !.config = c] ELSE repo
        /\ repo0' = IF ok THEN [repo0 EXCEPT !.config = c] ELSE repo0
        /\ calls' = Append(calls, Call("get_contents", 0, ok))
        /\ faults' = faults + (IF ok THEN 0 ELSE 1)
        /\ IF r.raised
           THEN /\ Crash(r.exc)
                /\ UNCHANGED <<hp, logs, history>>
           ELSE /\ hp' = PyBool(r.value)
                /\ UNCHANGED <<exc, exit_status>>
                /\ IF r.value
                   THEN /\ logs' = Append(logs, "has pre-commit")
                        /\ history' = Append(history,
                              [Summary EXCEPT !.ncalls = Len(calls')])
                        /\ pc' = "legacy_loop"
                   ELSE /\ logs' = Append(logs, "Does NOT have pre-commit")
                        /\ history' = history
                        /\ pc' = "legacy_has_pre_commit_issue"
    /\ UNCHANGED <<env, PAT, ORG, DRY_RUN, pass, repo_total, repo_count, hi,
                   todo, cur, closed_issues, issue_id, changes, art, res, dry,
                   prev>>

\* pre-commit-checker.py, main(), lines 56-59
LegacyHasPreCommitIssue ==
    /\ pc = "legacy_has_pre_commit_issue"
    /\ \E ok \in Oks, l \in LegacyIssuesAt(repo) :
        /\ repo' = IF ok THEN [repo EXCEPT !.listed = TRUE, !.issues = l]
                   ELSE repo
        /\ repo0' = IF ok THEN [repo0 EXCEPT !.listed = TRUE, !.issues = l]
                    ELSE repo0
        /\ calls' = Append(calls, Call("get_issues", 0, ok))
        /\ faults' = faults + (IF ok THEN 0 ELSE 1)
        /\ IF ~ok
           THEN /\ Crash(GithubException)
                /\ UNCHANGED <<hi, logs, history>>
           ELSE /\ hi' = PyBool(legacy_has_pre_commit_issue(l))
                /\ logs' = Append(logs,
                      IF legacy_has_pre_commit_issue(l) THEN "has issue"
                      ELSE "NEEDS issue")
                /\ history' = Append(history,
                      [Summary EXCEPT !.ncalls = Len(calls')])
                /\ pc' = "legacy_loop"
                /\ UNCHANGED <<exc, exit_status>>
    /\ UNCHANGED <<env, PAT, ORG, DRY_RUN, pass, repo_total, repo_count, hp,
                   todo, cur, closed_issues, issue_id, changes, art, res, dry,
                   prev>>

LegacyNext ==
    \/ LegacyMain
    \/ LegacyNextRepo
    \/ LegacyHasPreCommit
    \/ LegacyHasPreCommitIssue

LegacySpec == LegacyInit /\ [][LegacyNext]_vars

----------------------------------------------------------------------------
(* A harness for the two pure functions: every artifact is given to       *)
(* has_pre_commit(), every DRY_RUN value to is_dry_run()                   *)

DryRunValues ==
    { PyStr(<<"T","r","u","e">>), PyStr(<<"t","r","u","e">>),
      PyStr(<<"Y","E","S">>), PyStr(<<"y","e","s">>),
      PyStr(<<"F","a","l","s","e">>), PyStr(<<"F","A","L","S","E">>),
      PyStr(<<"f","a","l","s","e">>), PyStr(<<"N","o">>),
      PyStr(<<"n","o">>), PyStr(<<"n">>), PyStr(<<"0">>), PyStr(<<"1">>),
      PyStr(<<"o","f","f">>), PyStr(<<>>), PyStr(<<"n","o","n","e">>),
      PyStr(<<"f","a","l","s","e"," ">>) }

HarnessInit ==
    /\ env = [k \in {"PAT", "ORG", "DRY_RUN"} |-> PyNone]
    /\ PAT = Unset /\ ORG = Unset
    /\ DRY_RUN \in DryRunValues
    /\ pc = "harness"
    /\ exit_status = -1
    /\ exc = PyNone
    /\ pass = 1
    /\ repo_total = 0
    /\ repo_count = 0
    /\ repo = NoRepo /\ repo0 = NoRepo
    /\ hp = Unset /\ hi = Unset
    /\ todo = <<>> /\ cur = 0 /\ closed_issues = 0 /\ issue_id = 0
    /\ calls = <<>> /\ logs = <<>> /\ history = <<>>
    /\ faults = 0 /\ changes = 0
    /\ art \in Artifacts
    /\ prev = NoRun
    /\ res = Unset /\ dry = Unset

\* has_pre_commit() applied to the artifact
Validate ==
    /\ pc = "harness"
    /\ res = Unset
    /\ res' = has_pre_commit(art)
    /\ UNCHANGED <<env, PAT, ORG, DRY_RUN, pc, exit_status, exc, pass,
                   repo_total, repo_count, repo, repo0, hp, hi, todo, cur,
                   closed_issues, issue_id, calls, logs, history, faults,
                   changes, art, dry, prev>>

\* is_dry_run() applied to the value
EvalDryRun ==
    /\ pc = "harness"
    /\ dry = Unset
    /\ dry' = PyBool(is_dry_run(DRY_RUN))
    /\ UNCHANGED <<env, PAT, ORG, DRY_RUN, pc, exit_status, exc, pass,
                   repo_total, repo_count, repo, repo0, hp, hi, todo, cur,
                   closed_issues, issue_id, calls, logs, history, faults,
                   changes, art, res, prev>>

HarnessNext ==
    \/ Validate
    \/ EvalDryRun

HarnessSpec == HarnessInit /\ [][HarnessNext]_vars
----------------------------------------------------------------------------
(* What the claims speak of *)

Last(q) == q[Len(q)]

ReadOps == {"get_contents", "get_issues"}

\* The open issues of a tracker that carry the tracking title
OpenTracking(issues) ==
    { n \in 1..Len(issues) :
        issues[n].state = "open" /\ issues[n].title = MISSING_ISSUE_TITLE }

Checks == { k \in 1..Len(history) : history[k].kind = "check" }

NoRemoteError == \A k \in 1..Len(calls) : calls[k].ok

DryRun == DRY_RUN # Unset /\ is_dry_run(DRY_RUN)
Live == DRY_RUN # Unset /\ ~is_dry_run(DRY_RUN)

\* The iteration of the current repository is over, and it was not skipped
Reconciled == pc = "pace" /\ ~repo0.archived

\* The log line has_pre_commit() wrote, as the verdict of the design
Verdict(r) ==
    CASE r.raised -> "none"
      [] r.value -> "Compliant"
      [] r.log = "missing pre-commit config" -> "Missing"
      [] r.log = "pre-commit config is present but empty" -> "Empty"
      [] r.log = "invalid pre-commit config -- invalid YAML" -> "MalformedYAML"
      [] OTHER -> "InvalidSchema"

\* A top-level mapping whose `repos` is a non-empty sequence
HasRepos(v) ==
    /\ v.t = "dict"
    /\ REPOS \in DOMAIN v.d
    /\ v.d[REPOS].t = "list"
    /\ Len(v.d[REPOS].items) > 0

----------------------------------------------------------------------------
(* The claims *)

\* C1: with the dry-run flag enabled no create-issue, create-comment or
\* close (edit) call is made for any repository of any run, and no issue
\* tracker changes, whatever the verdict and the open issues.
C1_DryRunNoWrites ==
    DryRun =>
        /\ NumCalls(WriteOps, BOOLEAN) = 0
        /\ \A k \in Checks : history[k].nwrites = 0
        /\ repo # NoRepo => repo.issues = repo0.issues

\* C1, its case: a dry run has gone through close_issues() for a compliant
\* repository with two open tracking issues.
C1_Witness ==
    /\ DryRun
    /\ Reconciled
    /\ repo0.config = ValidConfig
    /\ Cardinality(OpenTracking(repo0.issues)) = 2
    /\ closed_issues = 2

\* C2 as claimed: a pass over a repository with a missing config file and no
\* open tracking issue creates exactly one issue, and a pass over a
\* repository with an open tracking issue creates none.
C2_Original ==
    /\ (Reconciled /\ repo0.config = NotFound /\ repo0.listed
            /\ OpenTracking(repo0.issues) = {})
        => /\ NumCalls({"create_issue"}, {TRUE}) = 1
           /\ repo.issues = Append(repo0.issues, NewIssue)
    /\ (repo0 # NoRepo /\ repo0.listed /\ OpenTracking(repo0.issues) # {})
        => NumCalls({"create_issue"}, BOOLEAN) = 0

\* C2 amended: with dry-run off, issues enabled and no remote error, a pass
\* over a repository with a missing config file and no open tracking issue
\* makes exactly one create call, which adds one open issue with the
\* tracking title and returns its number; a pass over a repository with an
\* open tracking issue (the second pass) makes no create call.
C2_AtMostOneCreation ==
    /\ (Reconciled /\ repo0.config = NotFound /\ repo0.listed
            /\ OpenTracking(repo0.issues) = {}
            /\ Live /\ repo0.has_issues /\ NoRemoteError)
        => /\ NumCalls({"create_issue"}, BOOLEAN) = 1
           /\ repo.issues = Append(repo0.issues, NewIssue)
           /\ issue_id = Len(repo.issues)
    /\ (repo0 # NoRepo /\ repo0.listed /\ OpenTracking(repo0.issues) # {})
        => NumCalls({"create_issue"}, BOOLEAN) = 0

\* C2, its case: the second pass is over, the config file is still missing,
\* the issue the first pass created is open, and nothing was created.
C2_Witness ==
    /\ pass = 2
    /\ Reconciled
    /\ repo0.config = NotFound
    /\ \E n \in OpenTracking(repo0.issues) : repo0.issues[n].by = "tool"
    /\ repo.issues = repo0.issues

\* C3 as claimed: what close_issues() returns is the number of matching
\* open issues whose comment and close calls both succeeded.
C3_CountIsClosed ==
    (Reconciled /\ hp # Unset /\ hp.b /\ hi # Unset /\ hi.b)
        => closed_issues =
             Cardinality({ n \in OpenTracking(repo0.issues) :
                 /\ \E k \in 1..Len(calls) :
                        calls[k] = Call("create_comment", n, TRUE)
                 /\ \E k \in 1..Len(calls) :
                        calls[k] = Call("edit", n, TRUE) })

C5_ArchivedSkip ==
    /\ (repo # NoRepo /\ repo.archived) => calls = <<>>
    /\ \A k \in Checks : history[k].archived => history[k].ncalls = 0

\* C6 as claimed: with PAT or ORG absent from the environment the process
\* exits with a non-zero status at startup, before any remote call.
C6_StartupCheck ==
    (env["PAT"] = PyNone \/ env["ORG"] = PyNone)
        => /\ pc \in {"load", "exited"}
           /\ pc = "exited" => exit_status > 0
           /\ history = <<>>
           /\ calls = <<>>

\* C7 as claimed: a failed content fetch or issue listing never ends the
\* scan.
C7_Original ==
    (calls # <<>> /\ Last(calls).op \in ReadOps /\ ~Last(calls).ok)
        => pc # "crashed"

\* C7 amended: a failed content fetch (other than not-found) or issue
\* listing is not caught: the process ends there with the uncaught
\* exception and status 1, the iterations before it stay done and no later
\* repository of the listing is reconciled.
C7_ReadFailureAborts ==
    (calls # <<>> /\ Last(calls).op \in ReadOps /\ ~Last(calls).ok)
        => /\ pc = "crashed"
           /\ exc = GithubException
           /\ exit_status = 1
           /\ Cardinality(Checks) = repo_count - 1

\* C7, its case: the fetch for the first of two repositories failed; the
\* second one is never reached.
C7_Witness ==
    /\ pc = "crashed"
    /\ calls # <<>>
    /\ Last(calls) = Call("get_contents", 0, FALSE)
    /\ repo_count = 1
    /\ repo_total = 2

\* C8: a remote error on a write call never ends the process; a failed
\* create call makes create_issue() return 0 and leaves the tracker as it
\* was; after the close loop every open tracking issue has had its comment
\* call, also those after a failed one; and a scan that is done has
\* iterated every repository of the listing.
C8_WriteFailuresContained ==
    /\ (calls # <<>> /\ Last(calls).op \in WriteOps /\ ~Last(calls).ok)
        => pc # "crashed"
    /\ (calls # <<>> /\ Last(calls).op = "create_issue" /\ ~Last(calls).ok)
        => (issue_id = 0 /\ repo.issues = repo0.issues)
    /\ (Reconciled /\ Live /\ hp # Unset /\ hp.b /\ hi # Unset /\ hi.b)
        => \A n \in OpenTracking(repo0.issues) :
              \E k \in 1..Len(calls) :
                  calls[k].op = "create_comment" /\ calls[k].issue = n
    /\ pc = "done" => Cardinality(Checks) = repo_total

\* C8, its case: the scan is done, a write call failed for the first
\* repository and the second one was reconciled after it.
C8_Witness ==
    /\ pc = "done"
    /\ repo_total = 2
    /\ \E k \in Checks : k < Len(history) - 1 /\ history[k].nwfailed > 0

\* C9 as claimed: a file of size > 1 that PyYAML loads, but not to a mapping
\* whose `repos` is a non-empty sequence, makes has_pre_commit() return
\* False without raising.
C9_InvalidSchema ==
    (res # Unset /\ art.fetch = "Found" /\ art.size > 1
        /\ yaml_safe_load(b64decode(art.content)) # YAMLError
        /\ ~HasRepos(yaml_safe_load(b64decode(art.content))))
    => (~res.raised /\ Verdict(res) = "InvalidSchema")

\* C10 as claimed: not-found gives Missing and a found file of size <= 1
\* gives Empty, the content being neither decoded nor parsed, and every
\* check of a fetched or missing file ends in a verdict.
C10_VerdictPrecedence ==
    res # Unset =>
        /\ art.fetch = "NotFound"
            => (Verdict(res) = "Missing" /\ ~res.parsed)
        /\ (art.fetch = "Found" /\ art.size <= 1)
            => (Verdict(res) = "Empty" /\ ~res.parsed)
        /\ art.fetch \in {"Found", "NotFound"} => Verdict(res) # "none"

\* The second of two runs in a row on the repository, the first one ended
\* without an exception and the config file is as the first run read it
SecondRun ==
    /\ pass > 1
    /\ pc = "pace"
    /\ prev.action \notin {"None", "Abort"}
    /\ ~prev.changed

\* C11 as claimed: two runs in a row with no outside change take the same
\* action for the repository.
C11_Original == SecondRun => Action = prev.action

\* C11: of two runs in a row with no outside change the second takes the
\* action of the first unless the first changed the issue tracker; after a
\* run that created the tracking issue the second run's action is NoOp, and
\* no run takes CreateIssue while an open tracking issue exists.
C11_Idempotence ==
    /\ SecondRun =>
        /\ ~prev.wrote => Action = prev.action
        /\ prev.created => Action = "NoOp"
    /\ (pc = "pace" /\ OpenTracking(repo0.issues) # {})
        => Action # "CreateIssue"

C11_Witness ==
    /\ SecondRun
    /\ prev.action = "CreateIssue"
    /\ prev.created
    /\ Action = "NoOp"
    /\ calls = <<Call("get_contents", 0, TRUE), Call("get_issues", 0, TRUE)>>

Logged(line) == \E k \in 1..Len(logs) : logs[k] = line

\* The iteration is over for a repository that was listed with issues
\* disabled, without config file and without open tracking issue
IssuesDisabledCase ==
    /\ Reconciled
    /\ repo0.config.fetch = "NotFound"
    /\ repo0.listed
    /\ OpenTracking(repo0.issues) = {}
    /\ ~repo0.has_issues

\* C12 as claimed: for such a repository no issue is created, create_issue()
\* returns 0 and "repository doesn't support issues" is logged.
C12_Original ==
    IssuesDisabledCase =>
        /\ issue_id = 0
        /\ NumCalls({"create_issue"}, BOOLEAN) = 0
        /\ repo.issues = repo0.issues
        /\ Logged("repository doesn't support issues")

\* C12: for such a repository no create call is made and create_issue()
\* returns 0; with dry-run off "repository doesn't support issues" is
\* logged, in a dry run "dry run, so issue not created" is logged instead.
C12_IssuesDisabled ==
    IssuesDisabledCase =>
        /\ issue_id = 0
        /\ NumCalls({"create_issue"}, BOOLEAN) = 0
        /\ repo.issues = repo0.issues
        /\ Logged("No issue created")
        /\ Live => /\ Logged("repository doesn't support issues")
                   /\ ~Logged("dry run, so issue not created")
        /\ DryRun => /\ Logged("dry run, so issue not created")
                     /\ ~Logged("repository doesn't support issues")

C12_Witness ==
    /\ IssuesDisabledCase
    /\ Live
    /\ Action = "CreateIssue"
    /\ Logged("repository doesn't support issues")

\* The string s is the lower-case word w, letter by letter in either case
SameWord(s, w) ==
    /\ Len(s) = Len(w)
    /\ \A i \in 1..Len(w) :
        \/ s[i] = w[i]
        \/ \E j \in 1..Len(LowerCase) :
            LowerCase[j] = w[i] /\ UpperCase[j] = s[i]

\* C13: is_dry_run() returns False exactly for the values that are "false"
\* or "no" in some mix of cases, and True for every other value, the
\* default "True" of an unset DRY_RUN among them.
C13_FailSafe ==
    dry # Unset =>
        /\ dry.b = ~(SameWord(DRY_RUN.s, S_false) \/ SameWord(DRY_RUN.s, S_no))
        /\ DRY_RUN = DefaultDryRun => dry.b

C13_Witness ==
    /\ dry # Unset
    /\ ~dry.b
    /\ DRY_RUN.s = <<"F","A","L","S","E">>

\* The config file as the design reads it: found, larger than one byte,
\* loading to a mapping whose `repos` is a non-empty sequence
CompliantFile(c) ==
    /\ c.fetch = "Found"
    /\ c.size > 1
    /\ yaml_safe_load(b64decode(c.content)) # YAMLError
    /\ HasRepos(yaml_safe_load(b64decode(c.content)))

\* C14: within the iteration of a repository a create-issue call is made
\* only if has_pre_commit() gave non-compliant and the listing had no open
\* tracking issue; comment and close calls are made only if it gave compliant
\* and the listing had an open tracking issue; a compliant repository
\* without tracking issue and a non-compliant one with an open tracking
\* issue get no write call.
C14_ActionTable ==
    /\ NumCalls({"create_issue"}, BOOLEAN) > 0 =>
        /\ hp = PyBool(FALSE)
        /\ repo0.listed
        /\ OpenTracking(repo0.issues) = {}
    /\ NumCalls({"create_comment", "edit"}, BOOLEAN) > 0 =>
        /\ hp = PyBool(TRUE)
        /\ repo0.listed
        /\ OpenTracking(repo0.issues) # {}
    /\ (hp # Unset /\ repo0.listed
            /\ hp.b = (OpenTracking(repo0.issues) = {}))
        => NumCalls(WriteOps, BOOLEAN) = 0

C14_Witness ==
    /\ Reconciled
    /\ NumCalls({"create_issue"}, {TRUE}) = 1
    /\ Len(repo0.issues) = 2
    /\ repo0.issues[1].state = "closed"
    /\ repo0.issues[2].title = OtherTitle

\* get_contents() raised an error other than not-found in this iteration
FetchFailed ==
    \E k \in 1..Len(calls) : calls[k] = Call("get_contents", 0, FALSE)

\* C15: when the fetch of the config file fails with an error other than
\* not-found, has_pre_commit() returns no verdict (the error leaves it), no
\* "Does NOT have pre-commit" is logged, and no issue of the repository is
\* created, commented on or closed in that run.
C15_FetchErrorNoVerdict ==
    FetchFailed =>
        /\ hp = Unset
        /\ pc = "crashed"
        /\ exc = GithubException
        /\ ~Logged("Does NOT have pre-commit")
        /\ NumCalls(WriteOps, BOOLEAN) = 0
        /\ repo.issues = repo0.issues

C15_Witness ==
    /\ FetchFailed
    /\ pc = "crashed"
    /\ repo_total = 2
    /\ repo_count = 2
    /\ Len(history) = 3

\* C16: has_pre_commit_issue() is true exactly when the listing holds an
\* open issue whose title equals the tracking title (a closed issue with
\* that title and an open one whose title only contains it do not count);
\* every comment and close call is made on such an issue, and an issue with
\* another title is left as it was listed.
C16_ExactTitle ==
    /\ (hi # Unset /\ repo0.listed)
        => hi.b = (\E n \in 1..Len(repo0.issues) :
                    /\ repo0.issues[n].state = "open"
                    /\ repo0.issues[n].title
                        = "Missing or invalid pre-commit configuration")
    /\ \A k \in 1..Len(calls) :
        calls[k].op \in {"create_comment", "edit"} =>
            /\ calls[k].issue \in 1..Len(repo0.issues)
            /\ repo0.issues[calls[k].issue].state = "open"
            /\ repo0.issues[calls[k].issue].title
                = "Missing or invalid pre-commit configuration"
    /\ (repo0 # NoRepo /\ repo0.listed) =>
        \A n \in 1..Len(repo0.issues) :
            repo0.issues[n].title
                # "Missing or invalid pre-commit configuration"
            => repo.issues[n] = repo0.issues[n]

C16_Witness ==
    /\ Reconciled
    /\ Len(repo0.issues) = 2
    /\ repo0.issues[1] = Issue(OtherTitle, "open")
    /\ repo0.issues[2] = Issue(MISSING_ISSUE_TITLE, "open")
    /\ repo.issues[2].state = "closed"
    /\ repo.issues[1] = repo0.issues[1]
    /\ hi = PyBool(TRUE)

Pauses == { k \in 1..Len(history) : history[k].kind = "sleep" }

\* C17: the scan pauses after the check of every repository but the last
\* one listed, archived or not: every pause directly follows a check and,
\* once the scan is over, directly precedes the next one; every check but
\* that of the last repository is directly followed by a pause; a scan of N
\* repositories that ends has made N checks and N-1 pauses (none for N = 0).
C17_Pacing ==
    /\ \A k \in Pauses :
        /\ k > 1
        /\ history[k - 1].kind = "check"
        /\ Cardinality({j \in Checks : j < k}) < repo_total
        /\ pc = "done" => (k < Len(history) /\ history[k + 1].kind = "check")
    /\ \A k \in Checks :
        IF Cardinality({j \in Checks : j <= k}) < repo_total
        THEN k < Len(history) /\ history[k + 1].kind = "sleep"
        ELSE k = Len(history)
    /\ pc = "done" =>
        /\ Cardinality(Checks) = repo_total
        /\ Cardinality(Pauses) = IF repo_total = 0 THEN 0 ELSE repo_total - 1

C17_Witness ==
    /\ pc = "done"
    /\ repo_total = 2
    /\ Len(history) = 4
    /\ history[2].kind = "check" /\ history[2].archived
    /\ history[3] = Sleep
    /\ history[4].kind = "check" /\ ~history[4].archived

\* A run with dry-run off has finished with a repository that is not
\* archived and has issues enabled, its issue tracker is known, and no
\* remote call failed: the iteration reached its end, or has_pre_commit()
\* raised by itself
PassOver ==
    /\ Reconciled \/ (pc = "crashed" /\ exc = TypeError /\ ~repo0.archived)
    /\ Live
    /\ repo0.has_issues
    /\ repo.listed
    /\ NoRemoteError

\* C18 as claimed: after such a run the repository has an open tracking
\* issue if and only if its config file is non-compliant.
C18_Convergence ==
    PassOver => ((OpenTracking(repo.issues) # {}) = ~CompliantFile(repo.config))

\* C19: from an issue tracker that is known and holds at most one open
\* issue with the tracking title, no step of any run (a create call, comment
\* or close, failed or not), no start of a further run and no change of the
\* config file leads to a tracker with more than one such issue.
C19_AtMostOneOpen ==
    [][ (/\ repo # NoRepo
         /\ repo.listed
         /\ Cardinality(OpenTracking(repo.issues)) <= 1
         /\ repo'.listed)
        => Cardinality(OpenTracking(repo'.issues)) <= 1 ]_vars

C19_Witness ==
    /\ pass = 2
    /\ changes = 1
    /\ Reconciled
    /\ Len(repo.issues) = 1
    /\ repo.issues[1].by = "tool"
    /\ repo.issues[1].state = "closed"
    /\ prev.created

\* C20: every close call directly follows a successful comment call on the
\* same issue; after a failed comment call no close call is made for that
\* issue in the run and the issue stays open; an issue the run closed has
\* got exactly one comment from it.
C20_CommentBeforeClose ==
    /\ \A k \in 1..Len(calls) :
        calls[k].op = "edit" =>
            /\ k > 1
            /\ calls[k - 1] = Call("create_comment", calls[k].issue, TRUE)
    /\ \A k \in 1..Len(calls) :
        (calls[k].op = "create_comment" /\ ~calls[k].ok) =>
            /\ \A j \in 1..Len(calls) :
                ~(calls[j].op = "edit" /\ calls[j].issue = calls[k].issue)
            /\ repo.issues[calls[k].issue].state = "open"
    /\ (repo0 # NoRepo /\ repo0.listed) =>
        \A n \in 1..Len(repo0.issues) :
            (repo0.issues[n].state = "open" /\ repo.issues[n].state = "closed")
            => repo.issues[n].comments = repo0.issues[n].comments + 1

C20_Witness ==
    /\ Reconciled
    /\ Len(calls) = 6
    /\ calls[4] = Call("create_comment", 2, FALSE)
    /\ calls[5] = Call("create_comment", 1, TRUE)
    /\ calls[6] = Call("edit", 1, TRUE)
    /\ repo.issues[2].state = "open"
    /\ repo.issues[1].state = "closed"

====
